---- MODULE Spec2Model ----
(***************************************************************************)
(* pysigma: the condition compiler (parser.py: grammar, FactoryTransformer, *)
(* prepare_condition), the per-event driver (parser.py: check_event) and    *)
(* the PySigma front end (pysigma.py: val_file, add_signature,              *)
(* check_events).                                                           *)
(*                                                                          *)
(* A condition text is represented by the sequence of its lexemes (the      *)
(* maximal pieces between the ignored spaces); the lexer's contextual       *)
(* typing of a lexeme (keyword, SEARCH_ID, NUMBER, pattern) is part of the  *)
(* parser below.  A compiled predicate (a Python closure) is represented by *)
(* the record of the closure's kind and captured variables.                 *)
(***************************************************************************)
EXTENDS Integers, Sequences, FiniteSets, TLC

VARIABLES
    \* ---- condition compiler (one prepare_condition / val_file call) ----
    raw,          \* raw_condition: a string (lexemes) or a list of fragments
    intent,       \* the expression(s) the author wrote the text from (history)
    file_defect,  \* what is wrong with the rule file around the condition
    cpc,          \* "raw", "compiled", "evaluated", "validated"
    compiled,     \* outcome of prepare_condition
    hits,         \* the single-match resolver's answer for every search block
    verdict,      \* result of calling the compiled predicate
    calls,        \* the resolver calls that call made, in order
    val_result,   \* outcome of val_file
    \* ---- PySigma instance and one check_events call ----
    rules,        \* self.rules: insertion-ordered dict title -> signature
    callback,     \* self.callback is set
    pc,           \* "idle", "next_event", "rules"
    events,       \* events still to iterate in check_events
    evno,         \* index of the current event in this pass
    event,        \* check_event: the prepared event
    ri,           \* check_event: index of the rule being visited
    alerts,       \* check_event: local alerts list
    timed_events, \* check_event: local timed_events list
    all_alerts,   \* check_events: all_alerts, returned when events is exhausted
    delivered,    \* alerts handed to the callback in this pass (history)
    corr_calls,   \* calls of check_timeframe in this pass (history)
    rules_before  \* self.rules when check_events was entered (history)

cvars == <<raw, intent, file_defect, cpc, compiled, hits, verdict, calls, val_result>>
dvars == <<rules, callback, pc, events, evno, event, ri, alerts, timed_events,
           all_alerts, delivered, corr_calls, rules_before>>
vars == <<cvars, dvars>>

-----------------------------------------------------------------------------
(* Bounds *)

\* operators (not/and/or) in a generated boolean condition
MaxOps == 3
\* fragments in a generated fragment list
MaxFrags == 2
\* rules the registry holds at once
MaxRules == 3
\* events in one check_events call
MaxEvents == 2

-----------------------------------------------------------------------------
(* Lexemes and their classes (parser.py grammar, terminals) *)

END == "$END"

\* search blocks declared on the rule
Blocks == {"sel1", "sel2", "filter"}

\* lexemes matching SEARCH_ID: /[a-zA-Z_][a-zA-Z0-9_]*/
SearchIdLexemes ==
    Blocks \cup {"and", "AND", "or", "OR", "not", "NOT", "all", "of", "them",
                 "by", "near", "count", "min", "max", "avg", "sum"}

\* lexemes matching NUMBER: /[1-9][0-9]*/
NumberLexemes == {"1", "2", "3"}

NumberValue(lex) == CASE lex = "1" -> 1 [] lex = "2" -> 2 [] lex = "3" -> 3

\* lexemes matching search_pattern: /[a-zA-Z_][a-zA-Z0-9*_]*/
PatternLexemes == SearchIdLexemes \cup {"sel*", "f*"}

AggregationFunctionLexemes == {"count", "min", "max", "avg", "sum"}

ComparisonOpLexemes == {">", "<", "="}

\* what may follow a complete atom: and/or, "|", ")" or the end of input
AndLexemes == {"and", "AND"}
OrLexemes == {"or", "OR"}
NotLexemes == {"not", "NOT"}

Tok(toks, i) == IF i <= Len(toks) THEN toks[i] ELSE END

-----------------------------------------------------------------------------
(* Compiled predicates: the closures FactoryTransformer builds *)

None == <<>>
Some(v) == <<v>>

Pred(kind, name, count, selector, args) ==
    [k |-> kind, name |-> name, count |-> count, selector |-> selector, args |-> args]

\* stands for a value that is no predicate (a failed parse carries it)
NoPred == Pred("none", "", None, None, <<>>)

callable(v) == v.k # "none"

\* search_id: the closure match_hits capturing name
search_id(name) == Pred("match_hits", name, None, None, <<>>)

\* search_pattern: the plain str of the token
search_pattern(lex) == [cls |-> "str", type |-> "", value |-> lex]

\* a lark Token kept in the tree (THEM, ALL, NUMBER); lark.Token derives from str
Token(type, lex) == [cls |-> "Token", type |-> type, value |-> lex]

\* isinstance(v, str): true of a str and of every subclass of str
isinstance_str(v) == v.cls \in {"str", "Token"}

\* not_rule that forgets the negation
not_rule_dropped(negate, value) == value

\* not_rule: negate is None (no "not") or the tree of rule not
not_rule(negate, value) ==
    IF negate = "None" THEN value
    ELSE Pred("_negate", "", None, None, <<value>>)

\* and_rule: a single child is returned as it is
and_rule(args) ==
    IF Len(args) = 1 THEN args[1]
    ELSE Pred("_and_operation", "", None, None, args)

\* or_rule: a single child is returned as it is
or_rule(args) ==
    IF Len(args) = 1 THEN args[1]
    ELSE Pred("_or_operation", "", None, None, args)

\* atom, pipe_rule, start: return args[0]
atom(args) == args[1]
pipe_rule(args) == args[1]
start(args) == args[1]

\* x_of: args = [Tree(x, [token]), OF, THEM token | pattern str]
x_of_count(x) == IF x.type = "NUMBER" THEN Some(NumberValue(x.value)) ELSE None

x_of_selector(y) ==
    IF isinstance_str(y) THEN Some(y.value)
    ELSE None

x_of_raises(y) == ~isinstance_str(y) /\ y.type # "THEM"

x_of(x, y) == Pred("_check_of_sections", "", x_of_count(x), x_of_selector(y), <<>>)

-----------------------------------------------------------------------------
(* The parser: the language of the grammar, callbacks run at each reduction *)

Ok(p, i) == [st |-> "ok", pred |-> p, pos |-> i]
\* lark.exceptions.UnexpectedInput (UnexpectedCharacters, UnexpectedToken)
SyntaxErr(i) == [st |-> "UnexpectedInput", pred |-> NoPred, pos |-> i]
\* raised by aggregation_expression / near_aggregation
Unsupported(i) == [st |-> "UnsupportedFeature", pred |-> NoPred, pos |-> i]
\* raised by the callable checks of atom / and_rule / or_rule and by x_of
ValueErr(i) == [st |-> "ValueError", pred |-> NoPred, pos |-> i]

\* x_of: x OF (THEM | search_pattern), x: ALL | NUMBER
ParseXOf(toks, i) ==
    LET t == Tok(toks, i)
        x == IF t = "all" THEN Token("ALL", t) ELSE Token("NUMBER", t)
        u == Tok(toks, i + 2)
        y == IF u = "them" THEN Token("THEM", u) ELSE search_pattern(u)
    IN  IF Tok(toks, i + 1) # "of" THEN SyntaxErr(i + 1)
        ELSE IF u \notin PatternLexemes THEN SyntaxErr(i + 2)
        ELSE IF x_of_raises(y) THEN ValueErr(i + 2)
        ELSE Ok(x_of(x, y), i + 3)

\* atom: x_of, reduced from the result r of x_of
AtomXOf(r) ==
    IF r.st # "ok" THEN r ELSE Ok(atom(<<r.pred>>), r.pos)

\* atom: "(" pipe_rule ")", reduced from the result r of the pipe_rule
AtomParen(toks, r) ==
    IF r.st # "ok" THEN r
    ELSE IF Tok(toks, r.pos) # ")" THEN SyntaxErr(r.pos)
    ELSE IF ~callable(r.pred) THEN ValueErr(r.pos)
    ELSE Ok(atom(<<r.pred>>), r.pos + 1)

\* not_rule: [not] atom, reduced from the result r of the atom
NotRule(negate, r) ==
    IF r.st # "ok" THEN r ELSE Ok(not_rule(negate, r.pred), r.pos)

\* and_rule reduced from its children
ReduceAnd(acc, i) ==
    IF \E j \in 1..Len(acc) : ~callable(acc[j]) THEN ValueErr(i)
    ELSE Ok(and_rule(acc), i)

\* or_rule reduced from its children
ReduceOr(acc, i) ==
    IF \E j \in 1..Len(acc) : ~callable(acc[j]) THEN ValueErr(i)
    ELSE Ok(or_rule(acc), i)

\* a near_aggregation callback that returns its operand instead of raising
NearAggregation_silent(toks, r) == r

\* near_aggregation: "near" or_rule, reduced from the result r of the or_rule.
\* The clause is reduced, and its callback raises, when the lexeme after it is
\* one the LALR table reduces on: ")" or the end of the input.
NearAggregation(toks, r) ==
    IF r.st # "ok" THEN r
    ELSE IF Tok(toks, r.pos) \in {")", END} THEN Unsupported(r.pos)
    ELSE SyntaxErr(r.pos)

\* aggregation_expression, first alternative (i is the position after "|"):
\*   aggregation_function "(" [aggregation_field] ")" ["by" group_field]
\*   comparison_op value
\* reduced, and raising, on the same lookahead as near_aggregation
AggregationClause(toks, i) ==
    IF Tok(toks, i) \notin AggregationFunctionLexemes THEN SyntaxErr(i)
    ELSE IF Tok(toks, i + 1) # "(" THEN SyntaxErr(i + 1)
    ELSE
        LET j == IF Tok(toks, i + 2) \in SearchIdLexemes THEN i + 3 ELSE i + 2
            k == IF Tok(toks, j + 1) = "by" THEN j + 3 ELSE j + 1
        IN  IF Tok(toks, j) # ")" THEN SyntaxErr(j)
            ELSE IF k = j + 3 /\ Tok(toks, j + 2) \notin SearchIdLexemes THEN SyntaxErr(j + 2)
            ELSE IF Tok(toks, k) \notin ComparisonOpLexemes THEN SyntaxErr(k)
            ELSE IF Tok(toks, k + 1) \notin NumberLexemes THEN SyntaxErr(k + 1)
            ELSE IF Tok(toks, k + 2) \in {")", END} THEN Unsupported(k + 2)
            ELSE SyntaxErr(k + 2)

\* The rules of the grammar, from position i of toks; acc holds the children
\* of an and_rule / or_rule read so far.
\*   pipe_rule: or_rule ["|" aggregation_expression]
\*   or_rule: and_rule (("or"|"OR") and_rule)*
\*   and_rule: not_rule (("and"|"AND") not_rule)*
\*   not_rule: [not] atom    (after a "not" the lexer's state accepts no
\*                            further "not": a second one is a SEARCH_ID)
\*   atom: x_of | search_id | "(" pipe_rule ")"
\*   aggregation_expression: ... | near_aggregation
RECURSIVE ParseRule(_, _, _, _)
ParseRule(rule, toks, i, acc) ==
    LET t == Tok(toks, i) IN
    CASE rule = "atom" ->
            IF t = "(" THEN AtomParen(toks, ParseRule("pipe_rule", toks, i + 1, <<>>))
            ELSE IF t = "all" \/ t \in NumberLexemes THEN AtomXOf(ParseXOf(toks, i))
            ELSE IF t \in SearchIdLexemes THEN Ok(atom(<<search_id(t)>>), i + 1)
            ELSE SyntaxErr(i)
      [] rule = "not_rule" ->
            IF t \in NotLexemes
            THEN NotRule("Tree", ParseRule("atom", toks, i + 1, <<>>))
            ELSE NotRule("None", ParseRule("atom", toks, i, <<>>))
      [] rule = "and_rule" ->
            LET r == ParseRule("not_rule", toks, i, <<>>) IN
            IF r.st # "ok" THEN r
            ELSE IF Tok(toks, r.pos) \in AndLexemes
                 THEN ParseRule("and_rule", toks, r.pos + 1, Append(acc, r.pred))
                 ELSE ReduceAnd(Append(acc, r.pred), r.pos)
      [] rule = "or_rule" ->
            LET r == ParseRule("and_rule", toks, i, <<>>) IN
            IF r.st # "ok" THEN r
            ELSE IF Tok(toks, r.pos) \in OrLexemes
                 THEN ParseRule("or_rule", toks, r.pos + 1, Append(acc, r.pred))
                 ELSE ReduceOr(Append(acc, r.pred), r.pos)
      [] rule = "aggregation_expression" ->
            IF t = "near"
            THEN NearAggregation(toks, ParseRule("or_rule", toks, i + 1, <<>>))
            ELSE AggregationClause(toks, i)
      [] rule = "pipe_rule" ->
            LET r == ParseRule("or_rule", toks, i, <<>>) IN
            IF r.st # "ok" THEN r
            ELSE IF Tok(toks, r.pos) = "|"
                 THEN ParseRule("aggregation_expression", toks, r.pos + 1, <<>>)
                 ELSE Ok(pipe_rule(<<r.pred, None>>), r.pos)

\* factory_parser.parse: start: pipe_rule, then the end of the input
Parse(toks) ==
    LET r == ParseRule("pipe_rule", toks, 1, <<>>) IN
    IF r.st # "ok" THEN [st |-> r.st, pred |-> NoPred]
    ELSE IF r.pos # Len(toks) + 1 THEN [st |-> "UnexpectedInput", pred |-> NoPred]
    ELSE [st |-> "ok", pred |-> start(<<r.pred>>)]

\* the join written with the wrong connective
RECURSIVE JoinFragments_and(_)
JoinFragments_and(frags) ==
    IF Len(frags) = 0 THEN <<>>
    ELSE IF Len(frags) = 1 THEN frags[1]
    ELSE frags[1] \o <<")", "and", "(">> \o JoinFragments_and(Tail(frags))

\* '(' + ') or ('.join(raw_condition) + ')'
RECURSIVE JoinFragments(_)
JoinFragments(frags) ==
    IF Len(frags) = 0 THEN <<>>
    ELSE IF Len(frags) = 1 THEN frags[1]
    ELSE frags[1] \o <<")", "or", "(">> \o JoinFragments(Tail(frags))

\* prepare_condition
prepare_condition(raw_condition) ==
    IF raw_condition.isList
    THEN Parse(<<"(">> \o JoinFragments(raw_condition.frags) \o <<")">>)
    ELSE Parse(raw_condition.text)

-----------------------------------------------------------------------------
(* The resolvers the closures call (sigma_scan) *)

\* wildcard match of a search_pattern against a block name
PatternMatches(pat, b) ==
    \/ pat = b
    \/ pat = "sel*" /\ b \in {"sel1", "sel2"}
    \/ pat = "f*" /\ b = "filter"

\* single-match resolver: does search block name match the event
match_search_id(h, name) == name \in Blocks /\ h[name]

\* x-of resolver: count None is ALL, selector None is every declared block
analyze_x_of(h, count, selector) ==
    LET selected == IF selector = None THEN Blocks
                    ELSE {b \in Blocks : PatternMatches(selector[1], b)}
        matched == {b \in selected : h[b]}
    IN  IF count = None THEN matched = selected
        ELSE Cardinality(matched) >= count[1]

CallRec(fn, name, count, selector) ==
    [fn |-> fn, name |-> name, count |-> count, selector |-> selector]

-----------------------------------------------------------------------------
(* Calling a compiled predicate: its value and the resolver calls it makes *)

RECURSIVE Call(_, _)
RECURSIVE AndOperation(_, _, _, _)
RECURSIVE OrOperation(_, _, _, _)

\* _and_operation that calls every component before it answers
RECURSIVE AndOperation_eager(_, _, _, _)
AndOperation_eager(args, i, h, sofar) ==
    IF i > Len(args) THEN [val |-> TRUE, calls |-> sofar]
    ELSE LET r == Call(args[i], h)
             rest == AndOperation_eager(args, i + 1, h, sofar \o r.calls)
         IN  [val |-> r.val /\ rest.val, calls |-> rest.calls]

\* _and_operation: for component in args: if not component(*state): return False
AndOperation(args, i, h, sofar) ==
    IF i > Len(args) THEN [val |-> TRUE, calls |-> sofar]
    ELSE LET r == Call(args[i], h) IN
         IF ~r.val THEN [val |-> FALSE, calls |-> sofar \o r.calls]
         ELSE AndOperation(args, i + 1, h, sofar \o r.calls)

\* _or_operation: for component in args: if component(*state): return True
OrOperation(args, i, h, sofar) ==
    IF i > Len(args) THEN [val |-> FALSE, calls |-> sofar]
    ELSE LET r == Call(args[i], h) IN
         IF r.val THEN [val |-> TRUE, calls |-> sofar \o r.calls]
         ELSE OrOperation(args, i + 1, h, sofar \o r.calls)

Call(p, h) ==
    CASE p.k = "match_hits" ->
            [val |-> match_search_id(h, p.name),
             calls |-> <<CallRec("match_search_id", p.name, None, None)>>]
      [] p.k = "_check_of_sections" ->
            [val |-> analyze_x_of(h, p.count, p.selector),
             calls |-> <<CallRec("analyze_x_of", "", p.count, p.selector)>>]
      [] p.k = "_negate" ->
            LET r == Call(p.args[1], h) IN [val |-> ~r.val, calls |-> r.calls]
      [] p.k = "_and_operation" -> AndOperation(p.args, 1, h, <<>>)
      [] p.k = "_or_operation" -> OrOperation(p.args, 1, h, <<>>)

-----------------------------------------------------------------------------
(* Rule files: signatures.load_signature, PySigma.add_signature, val_file *)

\* defects of a rule file outside its condition, by the exception they raise
FileDefects == {"none", "ComposerError", "KeyError", "ValueError"}

\* load_signature: the structure is read, then the condition is compiled;
\* a failure of either is raised to the caller
load_signature(defect, raw_condition) ==
    IF defect # "none" THEN [st |-> defect, pred |-> NoPred]
    ELSE prepare_condition(raw_condition)

\* the exceptions val_file's except clauses catch; whether UnsupportedFeature
\* derives from ValueError is decided outside these files (subclass)
val_file_catches(exc, subclass) ==
    \/ exc \in {"ValueError", "ComposerError", "KeyError"}
    \/ exc = "UnsupportedFeature" /\ subclass

\* val_file: True, False, or the exception that escapes
val_file(defect, raw_condition, subclass) ==
    LET r == load_signature(defect, raw_condition) IN
    IF r.st = "ok" THEN "True"
    ELSE IF val_file_catches(r.st, subclass) THEN "False"
    ELSE "raises"

-----------------------------------------------------------------------------
(* Condition expressions as their author means them, and their text *)

Expr(kind, name, sel, clause, args) ==
    [k |-> kind, name |-> name, sel |-> sel, clause |-> clause, args |-> args]

Id(n) == Expr("id", n, "", <<>>, <<>>)
Not(e) == Expr("not", "", "", <<>>, <<e>>)
And(l, r) == Expr("and", "", "", <<>>, <<l, r>>)
Or(l, r) == Expr("or", "", "", <<>>, <<l, r>>)
XOf(x, y) == Expr("xof", x, y, <<>>, <<>>)
Pipe(e, clause) == Expr("pipe", "", "", clause, <<e>>)

\* binding strength: pipe < or < and < not < atom
Level(e) ==
    CASE e.k = "pipe" -> 0 [] e.k = "or" -> 1 [] e.k = "and" -> 2
      [] e.k = "not" -> 3 [] OTHER -> 4

\* the text of an expression, parenthesised only where precedence needs it
RECURSIVE Show(_)
ShowAt(e, lvl) ==
    IF Level(e) >= lvl THEN Show(e) ELSE <<"(">> \o Show(e) \o <<")">>
Show(e) ==
    CASE e.k = "id" -> <<e.name>>
      [] e.k = "xof" -> <<e.name, "of", e.sel>>
      [] e.k = "not" -> <<"not">> \o ShowAt(e.args[1], 4)
      [] e.k = "and" -> ShowAt(e.args[1], 2) \o <<"and">> \o ShowAt(e.args[2], 3)
      [] e.k = "or" -> ShowAt(e.args[1], 1) \o <<"or">> \o ShowAt(e.args[2], 2)
      [] e.k = "pipe" -> ShowAt(e.args[1], 1) \o <<"|">> \o e.clause

\* the value of a boolean expression over search ids, by its structure
RECURSIVE Meaning(_, _)
Meaning(e, h) ==
    CASE e.k = "id" -> h[e.name]
      [] e.k = "not" -> ~Meaning(e.args[1], h)
      [] e.k = "and" -> Meaning(e.args[1], h) /\ Meaning(e.args[2], h)
      [] e.k = "or" -> Meaning(e.args[1], h) \/ Meaning(e.args[2], h)

RECURSIVE HasPipe(_)
HasPipe(e) == e.k = "pipe" \/ \E i \in 1..Len(e.args) : HasPipe(e.args[i])

RECURSIVE IsBoolean(_)
IsBoolean(e) ==
    /\ e.k \in {"id", "not", "and", "or"}
    /\ \A i \in 1..Len(e.args) : IsBoolean(e.args[i])

BoolAtoms == {Id("sel1"), Id("filter")}

\* boolean expressions with exactly n operators
RECURSIVE ExprsWithOps(_)
ExprsWithOps(n) ==
    IF n = 0 THEN BoolAtoms
    ELSE {Not(e) : e \in ExprsWithOps(n - 1)}
         \cup UNION {UNION {{And(l, r), Or(l, r)} :
                            l \in ExprsWithOps(i), r \in ExprsWithOps(n - 1 - i)} :
                     i \in 0..(n - 1)}

BoolExprs(n) == UNION {ExprsWithOps(i) : i \in 0..n}

SmallExprs == BoolExprs(1)

XOfExprs == {XOf(x, y) : x \in {"all", "1", "2"}, y \in {"them", "sel*", "f*"}}

QuantExprs ==
    XOfExprs \cup {Not(q) : q \in XOfExprs}
             \cup {And(q, Id("filter")) : q \in XOfExprs}
             \cup {Or(Id("sel1"), q) : q \in XOfExprs}

\* aggregation clauses of the grammar
AggClauses ==
    {<<f, "(">> \o fld \o <<")">> \o by \o <<op, "2">> :
        f \in AggregationFunctionLexemes, fld \in {<<>>, <<"sel1">>},
        by \in {<<>>, <<"by", "sel2">>}, op \in ComparisonOpLexemes}

NearClauses == {<<"near">> \o Show(e) : e \in SmallExprs}

PipeExprs ==
    LET leaves == {Pipe(e, c) : e \in SmallExprs \cup {XOf("1", "them")},
                                c \in AggClauses \cup NearClauses}
    IN  leaves \cup {Or(Id("sel1"), p) : p \in leaves}
               \cup {And(p, Id("filter")) : p \in leaves}
               \cup {Not(p) : p \in leaves}

StringInput(e) == [raw |-> [isList |-> FALSE, text |-> Show(e), frags |-> <<>>],
                   es |-> <<e>>]

\* texts that are no sentence of the grammar, and oddly written ones
OtherTexts ==
    { <<>>, <<"sel1", "and">>, <<"not", "not", "sel1">>, <<"(", "sel1">>,
      <<"sel1", ")">>, <<"sel1", "filter">>, <<"(", ")">>, <<"1", "of">>,
      <<"0", "of", "them">>, <<"all", "them">>, <<"sel1", "|">>,
      <<"sel1", "|", "count", "(", ")", ">", "0">>,
      <<"sel1", "|", "count", "(", ")", ">", "2", "filter">>,
      <<"sel1", "|", "near", "filter", "|", "count", "(", ")", ">", "2">>,
      <<"near", "sel1">>, <<"not", "not">>, <<"sel1", "&", "filter">> }

OtherInputs == {[raw |-> [isList |-> FALSE, text |-> t, frags |-> <<>>], es |-> <<>>] :
                t \in OtherTexts}

\* differently spelled keywords
UpperInputs ==
    { [raw |-> [isList |-> FALSE, text |-> <<"sel1", "AND", "NOT", "filter">>, frags |-> <<>>],
       es |-> <<And(Id("sel1"), Not(Id("filter")))>>],
      [raw |-> [isList |-> FALSE, text |-> <<"sel1", "OR", "filter", "AND", "sel1">>, frags |-> <<>>],
       es |-> <<Or(Id("sel1"), And(Id("filter"), Id("sel1")))>>] }

\* fragments of a fragment list: expressions, and texts that are none
FragExprs == SmallExprs \cup {XOf("1", "sel*"), Pipe(Id("sel1"), <<"count", "(", ")", ">", "2">>),
                              Pipe(Id("sel1"), <<"near", "filter">>)}
FragTexts == {<<"sel1", ")", "or", "(", "filter">>, <<"sel1", "and">>, <<>>}

RECURSIVE SeqsOfLen(_, _)
SeqsOfLen(S, n) ==
    IF n = 0 THEN {<<>>}
    ELSE {Append(q, x) : q \in SeqsOfLen(S, n - 1), x \in S}

ListInputs ==
    UNION {
      {[raw |-> [isList |-> TRUE, text |-> <<>>, frags |-> [i \in 1..n |-> Show(q[i])]],
        es |-> q] : q \in SeqsOfLen(FragExprs, n)}
      \cup
      {[raw |-> [isList |-> TRUE, text |-> <<>>, frags |-> q], es |-> <<>>] :
         q \in {r \in SeqsOfLen(FragTexts \cup {<<"sel1">>}, n) :
                  \E i \in 1..n : r[i] \in FragTexts}}
      : n \in 0..MaxFrags }

CondInputs ==
    {StringInput(e) : e \in BoolExprs(MaxOps) \cup QuantExprs \cup PipeExprs}
    \cup OtherInputs \cup UpperInputs \cup ListInputs

Assignments == [Blocks -> BOOLEAN]

-----------------------------------------------------------------------------
(* One condition through prepare_condition, a call of the predicate, val_file *)

NoOutcome == [st |-> "none", pred |-> NoPred]

DriverIdle ==
    /\ rules = <<>> /\ callback = FALSE /\ pc = "idle" /\ events = <<>>
    /\ evno = 0 /\ event = {} /\ ri = 0 /\ alerts = <<>> /\ timed_events = <<>>
    /\ all_alerts = <<>> /\ delivered = <<>>
    /\ corr_calls = <<>> /\ rules_before = <<>>

CondInit ==
    /\ \E inp \in CondInputs : raw = inp.raw /\ intent = inp.es
    /\ file_defect = "none"
    /\ cpc = "raw"
    /\ compiled = NoOutcome
    /\ hits = [b \in Blocks |-> FALSE]
    /\ verdict = FALSE
    /\ calls = <<>>
    /\ val_result = "none"
    /\ DriverIdle

\* compiled = prepare_condition(raw)
Compile ==
    /\ cpc = "raw"
    /\ compiled' = prepare_condition(raw)
    /\ cpc' = "compiled"
    /\ UNCHANGED <<raw, intent, file_defect, hits, verdict, calls, val_result, dvars>>

\* verdict = compiled(signature, event), the resolvers answering hits
Evaluate ==
    /\ cpc = "compiled"
    /\ compiled.st = "ok"
    /\ \E h \in Assignments :
         /\ hits' = h
         /\ verdict' = Call(compiled.pred, h).val
         /\ calls' = Call(compiled.pred, h).calls
    /\ cpc' = "evaluated"
    /\ UNCHANGED <<raw, intent, file_defect, compiled, val_result, dvars>>

\* val_file on a rule file with this condition
ValFile ==
    /\ cpc = "raw"
    /\ \E d \in FileDefects, subclass \in BOOLEAN :
         /\ file_defect' = d
         /\ compiled' = load_signature(d, raw)
         /\ val_result' = val_file(d, raw, subclass)
    /\ cpc' = "validated"
    /\ UNCHANGED <<raw, intent, hits, verdict, calls, dvars>>

CondNext == Compile \/ Evaluate \/ ValFile

SpecCond == CondInit /\ [][CondNext]_vars

-----------------------------------------------------------------------------
(* Claims about the condition compiler, checked under SpecCond *)

\* C1: a condition built from search ids with and/or/not and parentheses
\* compiles, and its predicate yields, for every answer of the single-match
\* resolver, the value of the expression read with NOT > AND > OR.
C1_Precedence ==
    (cpc \in {"compiled", "evaluated"} /\ ~raw.isList
       /\ Len(intent) = 1 /\ IsBoolean(intent[1]))
    => /\ compiled.st = "ok"
       /\ cpc = "evaluated" => verdict = Meaning(intent[1], hits)

\* "not sel1 or filter and sel1" evaluated where sel1 matches and filter does not
C1_Witness ==
    /\ cpc = "evaluated"
    /\ raw.text = <<"not", "sel1", "or", "filter", "and", "sel1">>
    /\ hits["sel1"] /\ ~hits["filter"]
    /\ verdict = FALSE

\* C2: a condition with an aggregation or near clause, at the top, inside
\* parentheses or inside a fragment, fails with UnsupportedFeature.
C2_Unsupported ==
    (cpc = "compiled" /\ \E i \in 1..Len(intent) : HasPipe(intent[i]))
    => compiled.st = "UnsupportedFeature"

\* a clause inside parentheses below an "or" was refused
C2_Witness ==
    /\ cpc = "compiled" /\ ~raw.isList
    /\ Len(intent) = 1 /\ intent[1].k = "or" /\ HasPipe(intent[1])
    /\ compiled.st = "UnsupportedFeature"

\* C3: "X of Y" calls the x-of resolver once with count N or none (all) and
\* selector none (them) or the pattern text, and returns its result.
C3_XOfCall ==
    (cpc = "evaluated" /\ Len(intent) = 1 /\ intent[1].k = "xof")
    => LET cnt == IF intent[1].name = "all" THEN None
                  ELSE Some(NumberValue(intent[1].name))
           slc == IF intent[1].sel = "them" THEN None ELSE Some(intent[1].sel)
       IN  /\ calls = <<CallRec("analyze_x_of", "", cnt, slc)>>
           /\ verdict = analyze_x_of(hits, cnt, slc)

\* the text "(f1) or ... or (fn)" of n >= 1 fragments
RECURSIVE ParenOr(_)
ParenOr(fs) ==
    IF Len(fs) = 1 THEN <<"(">> \o fs[1] \o <<")">>
    ELSE <<"(">> \o fs[1] \o <<")", "or">> \o ParenOr(Tail(fs))

\* C6: a list of fragments compiles to what the single text
\* "(f1) or ... or (fn)" compiles to, and a list of boolean fragments is true
\* exactly when one of its fragments is.
C6_FragmentList ==
    (raw.isList /\ Len(raw.frags) >= 1)
    => /\ cpc = "compiled" =>
            compiled = prepare_condition(
                [isList |-> FALSE, text |-> ParenOr(raw.frags), frags |-> <<>>])
       /\ (cpc = "evaluated" /\ Len(intent) >= 1
             /\ \A i \in 1..Len(intent) : IsBoolean(intent[i]))
          => verdict = (\E i \in 1..Len(intent) : Meaning(intent[i], hits))

\* the list ["sel1", "filter"] evaluated on an event only filter matches
C6_Witness ==
    /\ cpc = "evaluated" /\ raw.isList
    /\ raw.frags = << <<"sel1">>, <<"filter">> >>
    /\ ~hits["sel1"] /\ hits["filter"] /\ verdict

\* C7: val_file answers True when the file registers and False when loading
\* fails; it never raises.
C7_ValFile ==
    cpc = "validated"
    => /\ val_result \in {"True", "False"}
       /\ val_result = "True" <=> compiled.st = "ok"

RECURSIVE CallsUpTo(_, _, _)
CallsUpTo(args, n, h) ==
    IF n = 0 THEN <<>> ELSE CallsUpTo(args, n - 1, h) \o Call(args[n], h).calls

RECURSIVE NoSingleChild(_)
NoSingleChild(p) ==
    /\ p.k \in {"_and_operation", "_or_operation"} => Len(p.args) >= 2
    /\ \A i \in 1..Len(p.args) : NoSingleChild(p.args[i])

\* C9: a conjunction calls its children left to right up to the first false
\* one, a disjunction up to the first true one; no conjunction or disjunction
\* node wraps a single child.
C9_ShortCircuit ==
    /\ (cpc = "evaluated" /\ compiled.pred.k \in {"_and_operation", "_or_operation"})
       => LET p == compiled.pred
              stopv == (p.k = "_or_operation")
              stops == {i \in 1..Len(p.args) : Call(p.args[i], hits).val = stopv}
              last == IF stops = {} THEN Len(p.args)
                      ELSE CHOOSE i \in stops : \A j \in stops : i <= j
          IN  /\ calls = CallsUpTo(p.args, last, hits)
              /\ verdict = (IF stops = {} THEN ~stopv ELSE stopv)
    /\ (cpc \in {"compiled", "evaluated"} /\ compiled.st = "ok")
       => /\ NoSingleChild(compiled.pred)
          /\ (Len(intent) = 1 /\ ~raw.isList /\ intent[1].k = "id")
             => compiled.pred = search_id(intent[1].name)

\* "sel1 and filter and sel1" stopped at filter, the first false child
C9_Witness ==
    /\ cpc = "evaluated"
    /\ raw.text = <<"sel1", "and", "filter", "and", "sel1">>
    /\ hits["sel1"] /\ ~hits["filter"]
    /\ Len(calls) = 2 /\ verdict = FALSE

-----------------------------------------------------------------------------
(* PySigma: the rule registry, check_events and check_event *)

\* check_events: forbidden_rules
forbidden_rules == <<"RDP over Reverse SSH Tunnel WFP", "Suspicious Execution from Outlook">>

Titles == {forbidden_rules[1], forbidden_rules[2], "Rule A", "Rule B"}

\* the condition text of the rule file with this title
ConditionText(title) ==
    CASE title = forbidden_rules[1] -> <<"sel1">>
      [] title = forbidden_rules[2] -> <<"sel1", "or", "filter">>
      [] title = "Rule A" -> <<"sel1", "and", "not", "filter">>
      [] title = "Rule B" -> <<"1", "of", "sel*">>

\* the signatures load_signature returns: title, timeframe (None or a
\* window), and the condition compiled at load time
Signatures ==
    {[title |-> t, timeframe |-> tf,
      condition |-> prepare_condition(
                       [isList |-> FALSE, text |-> ConditionText(t), frags |-> <<>>]).pred] :
        t \in Titles, tf \in {None, Some("15s")}}

\* events, by the search blocks that match them
EventKinds == {{"sel1"}, {"filter"}}

EventLists == UNION {SeqsOfLen(EventKinds, n) : n \in 0..MaxEvents}

\* prepare_event_log: the normalised event
prepare_event_log(raw_event) == raw_event

HitsOf(ev) == [b \in Blocks |-> b \in ev]

Keys(rs) == {rs[i].key : i \in 1..Len(rs)}

\* self.rules[title] = signature: a new key goes last, a known key keeps its place
DictSet(rs, key, sig) ==
    IF key \in Keys(rs)
    THEN [i \in 1..Len(rs) |-> IF rs[i].key = key THEN [key |-> key, sig |-> sig] ELSE rs[i]]
    ELSE Append(rs, [key |-> key, sig |-> sig])

\* del self.rules[key]
DictDel(rs, key) ==
    LET Keep(entry) == entry.key # key IN SelectSeq(rs, Keep)

\* a deny-list loop that stops after its first title
DenyListRemoval_first(rs) ==
    IF forbidden_rules[1] \in Keys(rs) THEN DictDel(rs, forbidden_rules[1]) ELSE rs

\* a deny-list loop that filters a copy and leaves self.rules alone
DenyListRemoval_copy(rs) == rs

\* for r in forbidden_rules: if r in self.rules: del self.rules[r]
RECURSIVE DenyListLoop(_, _)
DenyListLoop(rs, i) ==
    IF i > Len(forbidden_rules) THEN rs
    ELSE IF forbidden_rules[i] \in Keys(rs)
         THEN DenyListLoop(DictDel(rs, forbidden_rules[i]), i + 1)
         ELSE DenyListLoop(rs, i + 1)

DenyListRemoval(rs) == DenyListLoop(rs, 1)

\* Alert(rule_name, description, event, level, file_name); by: who built it
Alert(rule_name, ev, by) == [rule |-> rule_name, event |-> ev, by |-> by]

\* callback_buildReport(alerts, alert): the alert is appended to alerts
callback_buildReport(al, alert) == Append(al, alert)

\* a driver that alerts at once whatever the timeframe
check_event_branch_untimed(matched, timeframe) ==
    IF matched THEN "alert" ELSE "skip"

\* check_event, lines 67-74: what is done with a rule after its condition ran
check_event_branch(matched, timeframe) ==
    IF matched
    THEN IF timeframe # None THEN "timeframe" ELSE "alert"
    ELSE "skip"

CondIdle ==
    /\ raw = [isList |-> FALSE, text |-> <<>>, frags |-> <<>>]
    /\ intent = <<>> /\ file_defect = "none" /\ cpc = "idle"
    /\ compiled = NoOutcome /\ hits = [b \in Blocks |-> FALSE]
    /\ verdict = FALSE /\ calls = <<>> /\ val_result = "none"

\* PySigma.__init__
Init == DriverIdle /\ CondIdle

\* add_signature: the file loads; self.rules[signature.title] = signature
\* (parser.rules = self.rules only aliases the same dict; check_event reads
\* the rules it is passed)
AddSignature ==
    /\ pc = "idle"
    /\ \E sig \in Signatures :
         /\ sig.title \in Keys(rules) \/ Len(rules) < MaxRules
         /\ rules' = DictSet(rules, sig.title, sig)
    /\ UNCHANGED <<callback, pc, events, evno, event, ri, alerts, timed_events,
                   all_alerts, delivered, corr_calls, rules_before, cvars>>

\* register_callback
RegisterCallback ==
    /\ pc = "idle"
    /\ ~callback
    /\ callback' = TRUE
    /\ UNCHANGED <<rules, pc, events, evno, event, ri, alerts, timed_events,
                   all_alerts, delivered, corr_calls, rules_before, cvars>>

\* check_events, lines 42-46: the deny-list is removed, all_alerts = []
CheckEventsBegin ==
    /\ pc = "idle"
    /\ \E evs \in EventLists : events' = evs
    /\ rules_before' = rules
    /\ rules' = DenyListRemoval(rules)
    /\ all_alerts' = <<>>
    /\ delivered' = <<>>
    /\ corr_calls' = <<>>
    /\ evno' = 0
    /\ pc' = "next_event"
    /\ UNCHANGED <<callback, event, ri, alerts, timed_events, cvars>>

\* check_event, lines 60-62: the event is prepared, alerts and timed_events
\* start empty
CheckEventEnter ==
    /\ pc = "next_event"
    /\ events # <<>>
    /\ event' = prepare_event_log(Head(events))
    /\ alerts' = <<>>
    /\ timed_events' = <<>>
    /\ ri' = 1
    /\ evno' = evno + 1
    /\ pc' = "rules"
    /\ UNCHANGED <<rules, callback, events, all_alerts, delivered,
                   corr_calls, rules_before, cvars>>

RuleMatches(entry, ev) == Call(entry.sig.condition, HitsOf(ev)).val

RuleBranch(entry, ev) == check_event_branch(RuleMatches(entry, ev), entry.sig.timeframe)

RuleFrame ==
    /\ ri' = ri + 1
    /\ UNCHANGED <<rules, callback, pc, events, evno, event, all_alerts, delivered,
                   rules_before, cvars>>

\* check_event, one turn of the loop: the condition is false
CheckRuleSkip ==
    /\ pc = "rules" /\ ri <= Len(rules)
    /\ RuleBranch(rules[ri], event) = "skip"
    /\ UNCHANGED <<alerts, timed_events, corr_calls>>
    /\ RuleFrame

\* check_event, one turn of the loop: a match of a rule without timeframe
CheckRuleAlert ==
    /\ pc = "rules" /\ ri <= Len(rules)
    /\ RuleBranch(rules[ri], event) = "alert"
    /\ alerts' = callback_buildReport(alerts, Alert(rules[ri].key, event, "check_event"))
    /\ UNCHANGED <<timed_events, corr_calls>>
    /\ RuleFrame

\* check_event, one turn of the loop: a match of a rule with a timeframe goes
\* to check_timeframe, which may record the match in timed_events and may
\* append an alert for the rule
CheckRuleTimeframe ==
    /\ pc = "rules" /\ ri <= Len(rules)
    /\ RuleBranch(rules[ri], event) = "timeframe"
    /\ \E record \in BOOLEAN, emit \in BOOLEAN :
         /\ timed_events' =
               IF record
               THEN Append(timed_events, [rule |-> rules[ri].key, event |-> event])
               ELSE timed_events
         /\ alerts' =
               IF emit
               THEN Append(alerts, Alert(rules[ri].key, event, "check_timeframe"))
               ELSE alerts
         /\ corr_calls' = Append(corr_calls,
               [rule_obj |-> rules[ri].sig, rule_name |-> rules[ri].key,
                timed_events |-> timed_events, event |-> event, alerts |-> alerts,
                evno |-> evno, recorded |-> record])
    /\ RuleFrame

\* check_event returns; check_events hands the alerts to the callback and
\* extends all_alerts
CheckEventReturn ==
    /\ pc = "rules" /\ ri > Len(rules)
    /\ delivered' = IF callback THEN delivered \o alerts ELSE delivered
    /\ all_alerts' = all_alerts \o alerts
    /\ events' = Tail(events)
    /\ alerts' = <<>>
    /\ timed_events' = <<>>
    /\ event' = {}
    /\ ri' = 0
    /\ pc' = "next_event"
    /\ UNCHANGED <<rules, callback, evno, corr_calls, rules_before, cvars>>

\* check_events returns all_alerts; its locals and the pass's history end
CheckEventsReturn ==
    /\ pc = "next_event"
    /\ events = <<>>
    /\ all_alerts' = <<>>
    /\ delivered' = <<>>
    /\ corr_calls' = <<>>
    /\ rules_before' = <<>>
    /\ evno' = 0
    /\ pc' = "idle"
    /\ UNCHANGED <<rules, callback, events, event, ri, alerts, timed_events, cvars>>

Next ==
    \/ AddSignature
    \/ RegisterCallback
    \/ CheckEventsBegin
    \/ CheckEventEnter
    \/ CheckRuleSkip
    \/ CheckRuleAlert
    \/ CheckRuleTimeframe
    \/ CheckEventReturn
    \/ CheckEventsReturn

Spec == Init /\ [][Next]_vars

-----------------------------------------------------------------------------
(* Claims about PySigma and check_event, checked under Spec *)

DenyListed == {"RDP over Reverse SSH Tunnel WFP", "Suspicious Execution from Outlook"}

AlertTitles(al) == {al[i].rule : i \in 1..Len(al)}

\* C4: no alert of a pass, returned or handed to the callback, is for a
\* deny-listed title, and from the start of the per-event loop on the
\* registry holds no deny-listed title.
C4_DenyList ==
    /\ (AlertTitles(alerts) \cup AlertTitles(all_alerts) \cup AlertTitles(delivered))
          \cap DenyListed = {}
    /\ pc # "idle" => Keys(rules) \cap DenyListed = {}

\* a pass over a registry that held a deny-listed rule ends with alerts that
\* also went to the callback
C4_Witness ==
    /\ pc = "next_event" /\ events = <<>>
    /\ Keys(rules_before) \cap DenyListed # {}
    /\ all_alerts # <<>> /\ delivered = all_alerts

IsPrefix(p, q) == Len(p) <= Len(q) /\ SubSeq(q, 1, Len(p)) = p

\* C5: while check_event walks the rules, the alerts it built itself are those
\* of the visited rules that matched and have no timeframe, one each and in
\* the registry's order, and check_timeframe was called once, in order, for
\* each visited rule that matched and has a timeframe, with the rule, its
\* name, the timed_events list, the event and the alerts list.
C5_Driver ==
    pc = "rules" =>
    LET visited == SubSeq(rules, 1, ri - 1)
        Untimed(entry) == RuleMatches(entry, event) /\ entry.sig.timeframe = None
        Timed(entry) == RuleMatches(entry, event) /\ entry.sig.timeframe # None
        ByDriver(a) == a.by = "check_event"
        ThisEvent(c) == c.evno = evno
        u == SelectSeq(visited, Untimed)
        t == SelectSeq(visited, Timed)
        da == SelectSeq(alerts, ByDriver)
        cc == SelectSeq(corr_calls, ThisEvent)
    IN  /\ da = [i \in 1..Len(u) |-> [rule |-> u[i].key, event |-> event, by |-> "check_event"]]
        /\ Len(cc) = Len(t)
        /\ \A i \in 1..Len(cc) :
              /\ cc[i].rule_obj = t[i].sig
              /\ cc[i].rule_name = t[i].key
              /\ cc[i].event = event
              /\ IsPrefix(cc[i].timed_events, timed_events)
              /\ IsPrefix(cc[i].alerts, alerts)

\* both rules were visited: the first alerted at once, the second went to
\* check_timeframe
C5_Witness ==
    /\ pc = "rules" /\ ri = 3 /\ Len(rules) = 2
    /\ rules[1].sig.timeframe = None /\ rules[2].sig.timeframe # None
    /\ Len(alerts) = 1 /\ alerts[1].by = "check_event"
    /\ \E i \in 1..Len(corr_calls) :
          corr_calls[i].evno = evno /\ corr_calls[i].rule_name = rules[2].key

\* C8: what check_timeframe recorded for a rule at an earlier event of the
\* pass is in the timed_events it is given for that rule at a later event.
C8_Accumulates ==
    \A j \in 1..Len(corr_calls) :
       LET c == corr_calls[j]
           earlier == {i \in 1..(j - 1) :
                         /\ corr_calls[i].rule_name = c.rule_name
                         /\ corr_calls[i].evno < c.evno
                         /\ corr_calls[i].recorded}
           OfRule(x) == x.rule = c.rule_name
       IN  Len(SelectSeq(c.timed_events, OfRule)) >= Cardinality(earlier)

Without(rs) ==
    LET Kept(entry) == entry.key \notin DenyListed IN SelectSeq(rs, Kept)

\* C10: entering check_events takes exactly the deny-listed titles out of the
\* registry, every other entry keeping its place and signature, and no later
\* step of the call, check_event included, changes the registry.
C10_Frame ==
    [][ /\ (pc = "idle" /\ pc' # "idle") => rules' = Without(rules)
        /\ pc # "idle" => rules' = rules ]_vars

\* a pass in progress that took a rule out of the registry and kept another
C10_Witness ==
    /\ pc = "rules"
    /\ Len(rules) >= 1 /\ Len(rules) < Len(rules_before)

====
